---- MODULE Spec2Model ----
(***************************************************************************)
(* Appointment-slot availability, booking-conflict handling and schedule   *)
(* persistence of the care-path booking application.                       *)
(*                                                                         *)
(* Clock-time strings are modelled as tuples of their ':'-separated        *)
(* fields: "08:30" is <<8, 30>> and "08:30:00" is <<8, 30, 0>>.  Two       *)
(* strings are equal exactly when their tuples are equal (all fields are   *)
(* zero-padded to two digits by the code and by the store).                *)
(* Calendar dates are day numbers; the weekday of date d is d % 7.         *)
(***************************************************************************)
EXTENDS Integers, Sequences, FiniteSets, TLC

VARIABLES
    timeWithSeconds,   \* the store renders time columns as HH:MM:SS (TRUE) or HH:MM (FALSE)
    doctor_schedules,  \* table doctor_schedules: set of rows
    bookings,          \* table bookings: sequence of rows, the id of a row is its index
    memberships,       \* table memberships: user -> row or NoRow
    selectedDate,      \* BookAppointment state, per session
    selectedTime,      \* BookAppointment state, per session
    timeSlots,         \* BookAppointment state, per session: sequence of TimeSlot
    slotsFrom,         \* history: the derivation that produced timeSlots[s]
    loads,             \* loadAvailability calls in flight
    doctorId,          \* BookAppointment route parameter, per session
    dayStates,         \* DoctorDashboard state, per dashboard: weekday -> DayState
    activeDay,         \* DoctorDashboard state, per dashboard
    save,              \* the saveSchedule call of a dashboard: its position and locals
    edits,             \* number of schedule edits made on a dashboard
    user,              \* useAuth().user of a session
    attempt,           \* the handleBooking call of a session: its position and locals
    clicks,            \* number of handleBooking calls made so far
    invocation,        \* the invokeWithFallback call of the page: its position and counts
    repoCall           \* the last BookingsRepo.hasConflict call: its arguments and result

storeVars == <<timeWithSeconds, doctor_schedules, bookings, memberships>>
viewVars  == <<selectedDate, selectedTime, timeSlots, slotsFrom, loads, doctorId>>
dashVars  == <<dayStates, activeDay, save, edits>>
bookVars  == <<user, attempt, clicks, invocation, repoCall>>
vars == <<storeVars, viewVars, dashVars, bookVars>>

----------------------------------------------------------------------------
(* Bounds *)

MaxWindows == 2        \* schedule rows drawn for the slot-derivation check
MaxPrior == 2          \* booking rows drawn for the slot-derivation check
MaxLoads == 1          \* loadAvailability calls in flight at a time
MaxEdits == 2          \* schedule edits made on one dashboard
MaxClicks == 2         \* handleBooking calls, over all sessions

Doctors == {"dA", "dB"}
Users == {"u1", "u2"}
Sessions == {"s1", "s2"}
Dates == {1, 2}
Dashboards == {"w1", "w2"}
Weekdays == 0..6
NoDate == 0
NoTime == <<>>
NoRow == [none |-> TRUE]

SlotStep == 30
BaseBookingFee == 1000

----------------------------------------------------------------------------
(* Clock-time strings *)

\* const [h, m] = t.split(':').map(Number); return h * 60 + m
toMinutes(t) == t[1] * 60 + t[2]

\* `${floor(mins / 60) padded}:${mins % 60 padded}`
toHHMM(mins) == <<mins \div 60, mins % 60>>

\* How the store returns a time value (given in minutes of the day).
RenderTime(mins) ==
    IF timeWithSeconds THEN <<mins \div 60, mins % 60, 0>>
                       ELSE <<mins \div 60, mins % 60>>

\* How the store reads a clock-time string written or compared by a client.
ParseTime(t) == t[1] * 60 + t[2]

\* a.localeCompare(b) < 0 for two zero-padded HH:MM strings
StrLess(a, b) == a[1] < b[1] \/ (a[1] = b[1] /\ a[2] < b[2])

\* new Date(selectedDate).getDay()
getDay(date) == date % 7

----------------------------------------------------------------------------
(* Rows of the tables *)

Window(doc, dow, start, end, avail) ==
    [doctor_id |-> doc, day_of_week |-> dow, start_time |-> start, end_time |-> end,
     is_available |-> avail]

Booking(uid, doc, date, time, status, fee) ==
    [user_id |-> uid, doctor_id |-> doc, appointment_date |-> date,
     appointment_time |-> time, status |-> status, payment_status |-> "pending",
     booking_fee |-> fee, total_amount |-> fee]

----------------------------------------------------------------------------
(* The store's answers to the two queries of loadAvailability *)

\* from('doctor_schedules').select('*').eq('doctor_id', ..).eq('day_of_week', ..)
\*   .eq('is_available', true): the matching rows as the client receives them
SchedulesQuery(doc, dayOfWeek) ==
    { [start_time |-> RenderTime(r.start_time), end_time |-> RenderTime(r.end_time)] :
        r \in { x \in doctor_schedules : /\ x.doctor_id = doc
                                         /\ x.day_of_week = dayOfWeek
                                         /\ x.is_available = TRUE } }

\* from('bookings').select('appointment_time, status').eq('doctor_id', ..)
\*   .eq('appointment_date', ..).neq('status', 'cancelled')
BookingsQuery(doc, date) ==
    { [appointment_time |-> RenderTime(bookings[i].appointment_time),
       status |-> bookings[i].status] :
        i \in { j \in DOMAIN bookings : /\ bookings[j].doctor_id = doc
                                        /\ bookings[j].appointment_date = date
                                        /\ bookings[j].status # "cancelled" } }

\* Some booking with status other than cancelled holds the slot.
ActiveBookingAt(doc, date, mins) ==
    \E i \in DOMAIN bookings : /\ bookings[i].doctor_id = doc
                               /\ bookings[i].appointment_date = date
                               /\ bookings[i].appointment_time = mins
                               /\ bookings[i].status # "cancelled"

\* The orders in which the store may return a set of rows (no ORDER BY is given).
RowOrders(S) ==
    { q \in [1..Cardinality(S) -> S] : \A i, j \in DOMAIN q : i # j => q[i] # q[j] }

----------------------------------------------------------------------------
(* Slot derivation: the computation of loadAvailability *)

\* new Set((bookings || []).map(b => b.appointment_time))
takenTimesOf(bookingRows) == { b.appointment_time : b \in bookingRows }

\* The window loop with m <= toMinutes(end): the end of the window is a slot as well.
RECURSIVE WindowLoop_Inclusive(_, _, _)
WindowLoop_Inclusive(m, endMins, takenTimes) ==
    IF m <= endMins
    THEN <<[time |-> toHHMM(m), available |-> ~(toHHMM(m) \in takenTimes)]>>
            \o WindowLoop_Inclusive(m + SlotStep, endMins, takenTimes)
    ELSE <<>>

\* for (let m = toMinutes(start); m < toMinutes(end); m += 30) slots.push(...)
RECURSIVE WindowLoop(_, _, _)
WindowLoop(m, endMins, takenTimes) ==
    IF m < endMins
    THEN <<[time |-> toHHMM(m), available |-> ~(toHHMM(m) \in takenTimes)]>>
            \o WindowLoop(m + SlotStep, endMins, takenTimes)
    ELSE <<>>

\* The loop over the windows with the taken times consulted for the first window only.
RECURSIVE PushSlots_TakenInFirst(_, _)
PushSlots_TakenInFirst(schedules, takenTimes) ==
    IF schedules = <<>> THEN <<>>
    ELSE WindowLoop(toMinutes(Head(schedules).start_time),
                    toMinutes(Head(schedules).end_time), takenTimes)
            \o PushSlots_TakenInFirst(Tail(schedules), {})

\* (schedules || []).forEach(s => { ... })
RECURSIVE PushSlots(_, _)
PushSlots(schedules, takenTimes) ==
    IF schedules = <<>> THEN <<>>
    ELSE WindowLoop(toMinutes(Head(schedules).start_time),
                    toMinutes(Head(schedules).end_time), takenTimes)
            \o PushSlots(Tail(schedules), takenTimes)

\* Insertion of x into an ascending sequence, after the entries that compare equal
\* (Array.prototype.sort is stable).
RECURSIVE InsertSorted(_, _)
InsertSorted(x, sorted) ==
    IF sorted = <<>> THEN <<x>>
    ELSE IF StrLess(x.time, Head(sorted).time) THEN <<x>> \o sorted
    ELSE <<Head(sorted)>> \o InsertSorted(x, Tail(sorted))

\* loadAvailability without the sort.
SortSlots_Unsorted(slots) == slots

\* slots.sort((a,b) => a.time.localeCompare(b.time))
RECURSIVE SortSlots(_)
SortSlots(slots) ==
    IF slots = <<>> THEN <<>>
    ELSE InsertSorted(slots[Len(slots)], SortSlots(SubSeq(slots, 1, Len(slots) - 1)))

\* unique.set(s.time, s): a Map keeps the position of the first insertion of a key
\* and the value of the last one.
MapSet(entries, s) ==
    IF \E i \in DOMAIN entries : entries[i].time = s.time
    THEN [i \in DOMAIN entries |-> IF entries[i].time = s.time THEN s ELSE entries[i]]
    ELSE Append(entries, s)

\* sorted.forEach(s => unique.set(s.time, s)); Array.from(unique.values())
RECURSIVE UniqueSlots(_)
UniqueSlots(sorted) ==
    IF sorted = <<>> THEN <<>>
    ELSE MapSet(UniqueSlots(SubSeq(sorted, 1, Len(sorted) - 1)), sorted[Len(sorted)])

\* loadAvailability displaying the slots as pushed, window after window.
DeriveSlots_AsPushed(schedules, bookingRows) ==
    PushSlots(schedules, takenTimesOf(bookingRows))

\* The value handed to setTimeSlots for the rows the two queries returned.
DeriveSlots(schedules, bookingRows) ==
    UniqueSlots(SortSlots(PushSlots(schedules, takenTimesOf(bookingRows))))

----------------------------------------------------------------------------
(* BookAppointment: date selection, loadAvailability, time selection *)

NoDerivation == [date |-> NoDate, ok |-> FALSE]

\* The body of the useEffect on [doctorId, selectedDate] up to its first await:
\* an empty date clears the list, any other date sends the schedules query.
StartLoad(s, date) ==
    IF date = NoDate
    THEN /\ timeSlots' = [timeSlots EXCEPT ![s] = <<>>]
         /\ slotsFrom' = [slotsFrom EXCEPT ![s] = NoDerivation]
         /\ loads' = loads
    ELSE /\ loads' = loads \cup {[sess |-> s, date |-> date, phase |-> "schedules",
                                  schedules |-> <<>>]}
         /\ UNCHANGED <<timeSlots, slotsFrom>>

\* onChange={(e) => setSelectedDate(e.target.value)}, then the effect runs; the effect
\* has no cleanup for a loadAvailability call that is still in flight.
setSelectedDate(s, date) ==
    /\ date # selectedDate[s]
    /\ selectedDate' = [selectedDate EXCEPT ![s] = date]
    /\ StartLoad(s, date)
    /\ UNCHANGED <<selectedTime, doctorId, storeVars, dashVars, bookVars>>

\* A change of the date while fewer than MaxLoads calls are in flight.
SelectDate(s, date) ==
    /\ Cardinality(loads) < MaxLoads
    /\ setSelectedDate(s, date)

\* A change of the date while one more call, started for an earlier date, may still be
\* in flight.
ReselectDate(s, date) ==
    /\ Cardinality(loads) <= MaxLoads
    /\ setSelectedDate(s, date)

\* A postgres_changes event on doctor_schedules or bookings of the doctor calls
\* loadAvailability again for the subscribed date.
RealtimeReload(s) ==
    /\ selectedDate[s] # NoDate
    /\ Cardinality(loads) < MaxLoads
    /\ StartLoad(s, selectedDate[s])
    /\ UNCHANGED <<selectedDate, selectedTime, doctorId, storeVars, dashVars, bookVars>>

\* catch (err) { setTimeSlots([]) }
LoadFailed(l) ==
    /\ timeSlots' = [timeSlots EXCEPT ![l.sess] = <<>>]
    /\ slotsFrom' = [slotsFrom EXCEPT ![l.sess] = [date |-> l.date, ok |-> FALSE]]
    /\ loads' = loads \ {l}

\* The answer to the doctor_schedules query arrives.
LoadSchedules(l) ==
    /\ l \in loads
    /\ l.phase = "schedules"
    /\ \/ \E q \in RowOrders(SchedulesQuery(doctorId[l.sess], getDay(l.date))) :
            /\ loads' = (loads \ {l}) \cup {[l EXCEPT !.phase = "bookings", !.schedules = q]}
            /\ UNCHANGED <<timeSlots, slotsFrom>>
       \/ LoadFailed(l)
    /\ UNCHANGED <<selectedDate, selectedTime, doctorId, storeVars, dashVars, bookVars>>

\* The answer to the bookings query arrives; the slots are computed and displayed.
LoadBookings(l) ==
    /\ l \in loads
    /\ l.phase = "bookings"
    /\ \/ /\ timeSlots' = [timeSlots EXCEPT ![l.sess] =
                DeriveSlots(l.schedules, BookingsQuery(doctorId[l.sess], l.date))]
          /\ slotsFrom' = [slotsFrom EXCEPT ![l.sess] = [date |-> l.date, ok |-> TRUE]]
          /\ loads' = loads \ {l}
       \/ LoadFailed(l)
    /\ UNCHANGED <<selectedDate, selectedTime, doctorId, storeVars, dashVars, bookVars>>

\* onClick={() => setSelectedTime(slot.time)} of a button with disabled={!slot.available}
SelectTime(s, i) ==
    /\ i \in DOMAIN timeSlots[s]
    /\ timeSlots[s][i].available
    /\ selectedTime[s] # timeSlots[s][i].time
    /\ selectedTime' = [selectedTime EXCEPT ![s] = timeSlots[s][i].time]
    /\ UNCHANGED <<selectedDate, timeSlots, slotsFrom, loads, doctorId, storeVars, dashVars, bookVars>>

InitView ==
    /\ selectedDate = [s \in Sessions |-> NoDate]
    /\ selectedTime = [s \in Sessions |-> NoTime]
    /\ timeSlots = [s \in Sessions |-> <<>>]
    /\ slotsFrom = [s \in Sessions |-> NoDerivation]
    /\ loads = {}

----------------------------------------------------------------------------
(* DoctorDashboard: the schedule editor, loadSchedule and saveSchedule *)

DashDoctor == "dA"     \* doctorInfo.id of the signed-in doctor

DefaultDay == [open |-> <<8, 0>>, close |-> <<17, 0>>, selected |-> {}]

\* The half-hour buttons of a day: for (m = toMinutes(open); m < toMinutes(close); m += 30)
GridTimes(state) ==
    { toHHMM(toMinutes(state.open) + SlotStep * k) :
        k \in { j \in 0..48 : toMinutes(state.open) + SlotStep * j < toMinutes(state.close) } }

\* Values the doctor types into the Open and Close inputs, buttons the doctor clicks.
OpenChoices == { <<8, 0>>, <<9, 0>> }
CloseChoices == { <<17, 0>>, <<23, 59>> }
ClickTimes == { <<8, 0>>, <<9, 30>>, <<23, 30>> }
ClickDays == { 1, 6 }

\* Values of the field `last' of a session whose saves are not followed, and of one
\* that is followed and has not reported a successful save yet.
Untracked == [untracked |-> TRUE]
NoSave == [none |-> TRUE]

\* The locals of one saveSchedule call.  Two fields are records of what happened and
\* are read by no action: `deleted' is whether the delete of the call took effect, and
\* `last', in a session whose saves are followed, is the selection of the session's
\* last save that reported success, with the doctor's rows it left.
Idle == [pc |-> "idle", selected |-> [d \in Weekdays |-> {}], rows |-> {}, toast |-> "none",
         deleted |-> FALSE, last |-> Untracked]

\* The field `last' once the call of w has reported success on the table `table'.
Reported(w, table) ==
    IF save[w].last = Untracked THEN Untracked
    ELSE [selected |-> save[w].selected, table |-> { x \in table : x.doctor_id = DashDoctor }]

InitDash ==
    /\ dayStates = [w \in Dashboards |-> [d \in Weekdays |-> DefaultDay]]
    /\ activeDay = [w \in Dashboards |-> 1]
    /\ save = [w \in Dashboards |-> Idle]
    /\ edits = [w \in Dashboards |-> 0]

Edit(w, d, state) ==
    /\ edits[w] < MaxEdits
    /\ edits' = [edits EXCEPT ![w] = @ + 1]
    /\ dayStates' = [dayStates EXCEPT ![w][d] = state]
    /\ UNCHANGED <<activeDay, save, storeVars, viewVars, bookVars>>

\* onClick={() => setActiveDay(i)}
SetActiveDay(w, d) ==
    /\ d # activeDay[w]
    /\ activeDay' = [activeDay EXCEPT ![w] = d]
    /\ UNCHANGED <<dayStates, save, edits, storeVars, viewVars, bookVars>>

\* The Open and Close inputs of the active day.
SetOpen(w, t) ==
    /\ t # dayStates[w][activeDay[w]].open
    /\ Edit(w, activeDay[w], [dayStates[w][activeDay[w]] EXCEPT !.open = t])

SetClose(w, t) ==
    /\ t # dayStates[w][activeDay[w]].close
    /\ Edit(w, activeDay[w], [dayStates[w][activeDay[w]] EXCEPT !.close = t])

\* A slot button of the grid: if (next.has(t)) next.delete(t); else next.add(t)
ToggleSlot(w, t) ==
    LET state == dayStates[w][activeDay[w]] IN
    /\ t \in GridTimes(state)
    /\ Edit(w, activeDay[w],
            [state EXCEPT !.selected = IF t \in @ THEN @ \ {t} ELSE @ \cup {t}])

\* Select All
SelectAll(w) ==
    LET state == dayStates[w][activeDay[w]] IN
    /\ state.selected # GridTimes(state)
    /\ Edit(w, activeDay[w], [state EXCEPT !.selected = GridTimes(state)])

\* Clear
ClearDay(w) ==
    LET state == dayStates[w][activeDay[w]] IN
    /\ state.selected # {}
    /\ Edit(w, activeDay[w], [state EXCEPT !.selected = {}])

\* Copy to all days
CopyToAllDays(w) ==
    /\ edits[w] < MaxEdits
    /\ \E d \in Weekdays : dayStates[w][d] # dayStates[w][activeDay[w]]
    /\ edits' = [edits EXCEPT ![w] = @ + 1]
    /\ dayStates' = [dayStates EXCEPT ![w] = [d \in Weekdays |-> dayStates[w][activeDay[w]]]]
    /\ UNCHANGED <<activeDay, save, storeVars, viewVars, bookVars>>

\* (row.start_time as string).slice(0,5)
Slice5(t) == <<t[1], t[2]>>

\* from('doctor_schedules').select('day_of_week, start_time, end_time, is_available')
\*   .eq('doctor_id', doctorInfo.id)
DoctorSchedulesQuery(doc) ==
    { [day_of_week |-> r.day_of_week, start_time |-> RenderTime(r.start_time),
       end_time |-> RenderTime(r.end_time), is_available |-> r.is_available] :
        r \in { x \in doctor_schedules : x.doctor_id = doc } }

\* The DayState that loadSchedule builds for weekday d from the rows it received.
LoadedDay(rows, d) ==
    LET mine == { r \in rows : r.is_available # FALSE /\ r.day_of_week = d }
        starts == { toMinutes(Slice5(r.start_time)) : r \in mine } \cup {toMinutes(DefaultDay.open)}
        ends == { toMinutes(Slice5(r.end_time)) : r \in mine } \cup {toMinutes(DefaultDay.close)}
        lo == CHOOSE m \in starts : \A n \in starts : m <= n
        hi == CHOOSE m \in ends : \A n \in ends : m >= n
    IN [open |-> toHHMM(lo), close |-> toHHMM(hi),
        selected |-> UNION { { toHHMM(toMinutes(Slice5(r.start_time)) + SlotStep * k) :
                                 k \in { j \in 0..48 : toMinutes(Slice5(r.start_time)) + SlotStep * j
                                                         < toMinutes(Slice5(r.end_time)) } } :
                             r \in mine }]

\* const selectedTimes = Array.from(state.selected.values()).sort()
RECURSIVE SortStrings(_)
SortStrings(S) ==
    IF S = {} THEN <<>>
    ELSE LET least == CHOOSE t \in S : \A u \in S : u = t \/ StrLess(t, u)
         IN <<least>> \o SortStrings(S \ {least})

\* saveSchedule with end = endLast: the half hour after the last selected time is left out.
ScheduleRow_EndAtLast(doc, d, selected) ==
    LET selectedTimes == SortStrings(selected)
        start == selectedTimes[1]
        end == selectedTimes[Len(selectedTimes)]
    IN IF Len(selectedTimes) = 0 THEN {}
       ELSE IF toMinutes(end) > toMinutes(start)
            THEN {[doctor_id |-> doc, day_of_week |-> d, start_time |-> start,
                   end_time |-> end, is_available |-> TRUE]}
            ELSE {}

\* The row saveSchedule builds for weekday d, as a set of zero or one rows.
ScheduleRow(doc, d, selected) ==
    LET selectedTimes == SortStrings(selected)
        start == selectedTimes[1]
        endLast == selectedTimes[Len(selectedTimes)]
        end == toHHMM(toMinutes(endLast) + SlotStep)
    IN IF Len(selectedTimes) = 0 THEN {}
       ELSE IF toMinutes(end) > toMinutes(start)
            THEN {[doctor_id |-> doc, day_of_week |-> d, start_time |-> start,
                   end_time |-> end, is_available |-> TRUE]}
            ELSE {}

\* const rows = []; for (let d = 0; d < 7; d++) { ... rows.push(...) }
ScheduleRows(doc, selected) == UNION { ScheduleRow(doc, d, selected[d]) : d \in Weekdays }

\* The table after upsert(rows, { onConflict: 'doctor_id,day_of_week' })
Upserted(table, rows) ==
    { x \in table : ~\E r \in rows : r.doctor_id = x.doctor_id /\ r.day_of_week = x.day_of_week }
    \cup { Window(r.doctor_id, r.day_of_week, ParseTime(r.start_time), ParseTime(r.end_time),
                  r.is_available) : r \in rows }

\* loadSchedule: the rows arrive and replace dayStates, or the query fails and
\* dayStates stays as it is.
loadSchedule(w) ==
    \/ dayStates' = [dayStates EXCEPT ![w] =
                        [d \in Weekdays |-> LoadedDay(DoctorSchedulesQuery(DashDoctor), d)]]
    \/ dayStates' = dayStates

\* loadSchedule called by the schedulesChannel subscription.
RealtimeLoadSchedule(w) ==
    /\ save[w].pc = "idle"
    /\ loadSchedule(w)
    /\ dayStates' # dayStates
    /\ UNCHANGED <<activeDay, save, edits, storeVars, viewVars, bookVars>>

\* saveSchedule up to its first await: the delete request is sent.
SaveClick(w) ==
    /\ save[w].pc = "idle"
    /\ save' = [save EXCEPT ![w] = [pc |-> "delete",
                                    selected |-> [d \in Weekdays |-> dayStates[w][d].selected],
                                    rows |-> {}, toast |-> "none", deleted |-> FALSE,
                                    last |-> save[w].last]]
    /\ UNCHANGED <<dayStates, activeDay, edits, storeVars, viewVars, bookVars>>

\* await supabase.from('doctor_schedules').delete().eq('doctor_id', doctorId): the
\* result is not inspected.  Then the rows are built and, if there are any, upserted.
SaveDelete(w) ==
    /\ save[w].pc = "delete"
    /\ \E done \in BOOLEAN :
        /\ doctor_schedules' = IF done THEN { x \in doctor_schedules : x.doctor_id # DashDoctor }
                                       ELSE doctor_schedules
        /\ LET rows == ScheduleRows(DashDoctor, save[w].selected) IN
           save' = [save EXCEPT ![w].rows = rows, ![w].deleted = done,
                                ![w].pc = IF rows # {} THEN "upsert" ELSE "reload",
                                ![w].toast = IF rows # {} THEN "none" ELSE "live",
                                ![w].last = IF rows # {} THEN @
                                            ELSE Reported(w, doctor_schedules')]
    /\ UNCHANGED <<timeWithSeconds, bookings, memberships, dayStates, activeDay, edits, viewVars, bookVars>>

\* The upsert answers: if (error) throw error, else the 'Schedule is live' toast.
SaveUpsert(w) ==
    /\ save[w].pc = "upsert"
    /\ \/ /\ doctor_schedules' = Upserted(doctor_schedules, save[w].rows)
          /\ save' = [save EXCEPT ![w].pc = "reload", ![w].toast = "live",
                                   ![w].last = Reported(w, doctor_schedules')]
       \/ /\ doctor_schedules' = doctor_schedules
          /\ save' = [save EXCEPT ![w] = [Idle EXCEPT !.toast = "failed", !.last = save[w].last]]
    /\ UNCHANGED <<timeWithSeconds, bookings, memberships, dayStates, activeDay, edits, viewVars, bookVars>>

\* await loadSchedule(); finally setSavingSchedule(false)
SaveReload(w) ==
    /\ save[w].pc = "reload"
    /\ loadSchedule(w)
    /\ save' = [save EXCEPT ![w] = [Idle EXCEPT !.toast = save[w].toast, !.last = save[w].last]]
    /\ UNCHANGED <<activeDay, edits, storeVars, viewVars, bookVars>>

----------------------------------------------------------------------------
(* BookAppointment.handleBooking *)

\* The requests a handleBooking call has sent so far: supabase.functions.invoke and
\* fetch(fnUrl) of create-booking, then the same two of create-payfast-payment.
Requests == {"createPrimary", "createSecondary", "payPrimary", "paySecondary"}
NoneSent == [r \in Requests |-> 0]
Sent(invoked, r) == IF r \in Requests THEN [invoked EXCEPT ![r] = @ + 1] ELSE invoked

\* No BookingsRepo.hasConflict call has been made.
NoCall == [doctorId |-> "none", date |-> NoDate, time |-> NoTime, outcome |-> "none",
           result |-> FALSE]

\* No invokeWithFallback call is running.
NoInvocation == [pc |-> "idle", name |-> "none", primary |-> 0, fallback |-> 0, result |-> "none"]

\* No create-payfast-payment request has been sent.
NoPayment == [booking_id |-> 0, amount |-> 0]

\* The locals of one handleBooking call, and in `payment' the body of its
\* create-payfast-payment requests (booking_id: booking.id, amount: booking.booking_fee).  Two fields are records of what happened and
\* are read by no action: `conflict' is how the conflict query of the call ended, and
\* `rival' is the session whose call for the same slot was in flight, the slot still
\* being free, when this call started.
NoAttempt ==
    [pc |-> "idle", date |-> NoDate, time |-> NoTime, booking |-> 0, inserted |-> 0,
     primary |-> "none", secondary |-> "none", payPrimary |-> "none", paySecondary |-> "none",
     membership |-> NoRow, booking_fee |-> BaseBookingFee, shouldDecrement |-> FALSE,
     free |-> 0, payment |-> NoPayment, invoked |-> NoneSent, outcome |-> "none", conflict |-> "none",
     rival |-> "none"]

InitBook ==
    /\ user = [s \in Sessions |-> "u1"]
    /\ attempt = [s \in Sessions |-> NoAttempt]
    /\ clicks = 0
    /\ invocation = NoInvocation
    /\ repoCall = NoCall

InFlight == { s \in Sessions : attempt[s].pc \notin {"idle", "left"} }

\* The fee condition without the test of the remaining credits.
FreeCredit_AnyPremium(membership) ==
    /\ membership # NoRow
    /\ membership.membership_type = "premium"

\* membership?.membership_type === 'premium' && (membership.free_bookings_remaining ?? 0) > 0
FreeCredit(membership) ==
    /\ membership # NoRow
    /\ membership.membership_type = "premium"
    /\ membership.free_bookings_remaining > 0

\* The remote operation create-booking, when it answers: it refuses a slot that has an
\* active booking, and otherwise inserts the pending booking with its fee and consumes
\* the free credit.  TRUE in `refused' when the slot was taken.
CreateBookingRefuses(doc, date, time) == ActiveBookingAt(doc, date, ParseTime(time))

CreateBookingRow(u, doc, date, time) ==
    Booking(u, doc, date, ParseTime(time), "pending",
            IF FreeCredit(memberships[u]) THEN 0 ELSE BaseBookingFee)

CreateBookingMemberships(u) ==
    IF FreeCredit(memberships[u])
    THEN [memberships EXCEPT ![u].free_bookings_remaining = @ - 1]
    ELSE memberships

\* finally { setIsBooking(false) } after the toast or redirect of a terminal outcome.
\* window.location.href = paymentUrl and navigate('/booking-success?...') leave the page.
Finish(s, outcome) ==
    [NoAttempt EXCEPT !.pc = IF outcome \in {"Redirected", "BookingCreated"} THEN "left" ELSE "idle",
                      !.outcome = outcome, !.booking = attempt[s].booking,
                      !.inserted = attempt[s].inserted, !.payment = attempt[s].payment,
                      !.conflict = attempt[s].conflict,
                      !.rival = attempt[s].rival]

\* The session, if any, whose call for the slot selected in s is in flight while the
\* slot has no active booking.
Rivals(s) ==
    { t \in Sessions \ {s} : /\ t \in InFlight
                             /\ doctorId[t] = doctorId[s]
                             /\ attempt[t].date = selectedDate[s]
                             /\ attempt[t].time = selectedTime[s]
                             /\ ~ActiveBookingAt(doctorId[s], selectedDate[s],
                                                 ParseTime(selectedTime[s])) }

Rival(s) == IF Rivals(s) = {} THEN "none" ELSE CHOOSE t \in Rivals(s) : TRUE

\* The Book button without isBooking in its disabled condition: a click is accepted
\* while a call of the session is running.
HandleBookingClick_Enabled(s) ==
    /\ attempt[s].pc # "left"
    /\ selectedDate[s] # NoDate
    /\ selectedTime[s] # NoTime
    /\ clicks < MaxClicks
    /\ clicks' = clicks + 1
    /\ attempt' = [attempt EXCEPT ![s] =
                      [NoAttempt EXCEPT !.pc = "createPrimary",
                                        !.invoked = Sent(NoneSent, "createPrimary"),
                                        !.date = selectedDate[s],
                                        !.time = selectedTime[s]]]
    /\ UNCHANGED <<user, invocation, repoCall, storeVars, viewVars, dashVars>>

\* onClick={handleBooking} of the Book button, enabled by
\* disabled={!user || !selectedDate || !selectedTime || isBooking}; setIsBooking(true)
\* and the primary create-booking request is sent.
HandleBookingClick(s) ==
    /\ attempt[s].pc = "idle"
    /\ selectedDate[s] # NoDate
    /\ selectedTime[s] # NoTime
    /\ clicks < MaxClicks
    /\ clicks' = clicks + 1
    /\ attempt' = [t \in Sessions |->
                      IF t = s
                      THEN [NoAttempt EXCEPT !.pc = "createPrimary",
                                             !.invoked = Sent(NoneSent, "createPrimary"),
                                             !.date = selectedDate[s],
                                             !.time = selectedTime[s], !.rival = Rival(s)]
                      ELSE IF attempt[t].rival = s THEN [attempt[t] EXCEPT !.rival = "none"]
                      ELSE attempt[t]]
    /\ UNCHANGED <<user, invocation, repoCall, storeVars, viewVars, dashVars>>

\* One channel of create-booking answers or fails.  `field' names the channel and
\* `failed' the position after a failure of this channel.
CreateBooking(s, channel, failed) ==
    LET a == attempt[s] IN
    \/ \* transport failure: nothing reached the operation
       /\ attempt' = [attempt EXCEPT ![s] = [a EXCEPT ![channel] = "transport", !.pc = failed,
                                                       !.invoked = Sent(@, failed)]]
       /\ UNCHANGED <<bookings, memberships>>
    \/ \* the operation answered and refused the booking
       /\ CreateBookingRefuses(doctorId[s], a.date, a.time)
       /\ attempt' = [attempt EXCEPT ![s] = [a EXCEPT ![channel] = "rejected", !.pc = failed,
                                                       !.invoked = Sent(@, failed)]]
       /\ UNCHANGED <<bookings, memberships>>
    \/ \* the operation created the booking and returned it
       /\ ~CreateBookingRefuses(doctorId[s], a.date, a.time)
       /\ bookings' = Append(bookings, CreateBookingRow(user[s], doctorId[s], a.date, a.time))
       /\ memberships' = CreateBookingMemberships(user[s])
       /\ attempt' = [attempt EXCEPT ![s] =
              [a EXCEPT ![channel] = "ok", !.pc = "payPrimary", !.booking = Len(bookings) + 1,
                        !.invoked = Sent(@, "payPrimary"),
                        !.payment = [booking_id |-> Len(bookings) + 1,
                                     amount |-> CreateBookingRow(user[s], doctorId[s], a.date,
                                                                 a.time).booking_fee]]]

\* supabase.functions.invoke('create-booking'); if (!booking) the direct HTTPS call follows
CreatePrimary(s) ==
    /\ attempt[s].pc = "createPrimary"
    /\ CreateBooking(s, "primary", "createSecondary")
    /\ UNCHANGED <<user, invocation, repoCall, clicks, timeWithSeconds, doctor_schedules, viewVars, dashVars>>

\* The secondary call without `if (!booking) throw lastErr': the payment request
\* follows whether or not a booking was returned.
CreateSecondary_NoThrow(s) ==
    /\ attempt[s].pc = "createSecondary"
    /\ CreateBooking(s, "secondary", "payPrimary")
    /\ UNCHANGED <<user, invocation, repoCall, clicks, timeWithSeconds, doctor_schedules, viewVars, dashVars>>

\* fetch(fnUrl) of create-booking; if (!booking) throw lastErr, into the catch block
CreateSecondary(s) ==
    /\ attempt[s].pc = "createSecondary"
    /\ CreateBooking(s, "secondary", "conflict")
    /\ UNCHANGED <<user, invocation, repoCall, clicks, timeWithSeconds, doctor_schedules, viewVars, dashVars>>

\* supabase.functions.invoke('create-payfast-payment'): a payment URL or none
PayPrimary(s) ==
    /\ attempt[s].pc = "payPrimary"
    /\ \/ attempt' = [attempt EXCEPT ![s] = Finish(s, "Redirected")]
       \/ attempt' = [attempt EXCEPT ![s] = [@ EXCEPT !.payPrimary = "failed", !.pc = "paySecondary",
                                                      !.invoked = Sent(@, "paySecondary")]]
    /\ UNCHANGED <<user, invocation, repoCall, clicks, storeVars, viewVars, dashVars>>

\* The secondary payment request with a retry: after its failure the primary request
\* is sent again.
PaySecondary_Retry(s) ==
    /\ attempt[s].pc = "paySecondary"
    /\ \/ attempt' = [attempt EXCEPT ![s] = Finish(s, "Redirected")]
       \/ attempt' = [attempt EXCEPT ![s] = [@ EXCEPT !.paySecondary = "failed", !.pc = "payPrimary",
                                                      !.invoked = Sent(@, "payPrimary")]]
    /\ UNCHANGED <<user, invocation, repoCall, clicks, storeVars, viewVars, dashVars>>

\* fetch(fnUrl) of create-payfast-payment; if (!paymentUrl) throw payErr, into the catch block
PaySecondary(s) ==
    /\ attempt[s].pc = "paySecondary"
    /\ \/ attempt' = [attempt EXCEPT ![s] = Finish(s, "Redirected")]
       \/ attempt' = [attempt EXCEPT ![s] = [@ EXCEPT !.paySecondary = "failed", !.pc = "conflict"]]
    /\ UNCHANGED <<user, invocation, repoCall, clicks, storeVars, viewVars, dashVars>>

\* from('bookings').select('id, status').eq('doctor_id', ..).eq('appointment_date', ..)
\*   .eq('appointment_time', ..).neq('status', 'cancelled')
ConflictRows(doc, date, time) ==
    { i \in DOMAIN bookings : /\ bookings[i].doctor_id = doc
                              /\ bookings[i].appointment_date = date
                              /\ bookings[i].appointment_time = ParseTime(time)
                              /\ bookings[i].status # "cancelled" }

\* catch (errAny): const { data: conflict } = await ...; the error of the query is not
\* read, and a failed query leaves conflict = null.
ConflictQuery(s) ==
    /\ attempt[s].pc = "conflict"
    /\ \/ \* the query answers
          IF ConflictRows(doctorId[s], attempt[s].date, attempt[s].time) # {}
          THEN attempt' = [attempt EXCEPT ![s] =
                              [Finish(s, "SlotUnavailable") EXCEPT !.conflict = "answered"]]
          ELSE attempt' = [attempt EXCEPT ![s].pc = "membership", ![s].conflict = "answered"]
       \/ \* the query fails: (conflict || []).length is 0
          attempt' = [attempt EXCEPT ![s].pc = "membership", ![s].conflict = "failed"]
    /\ UNCHANGED <<user, invocation, repoCall, clicks, storeVars, viewVars, dashVars>>

\* from('memberships').select(..).eq('user_id', user.id).single(), then the fee; a
\* failed query or a missing row leaves membership = null.
MembershipQuery(s) ==
    /\ attempt[s].pc = "membership"
    /\ \E membership \in {memberships[user[s]], NoRow} :
          attempt' = [attempt EXCEPT ![s] =
                [@ EXCEPT !.pc = "insert",
                          !.membership = membership,
                          !.booking_fee = IF FreeCredit(membership) THEN 0 ELSE BaseBookingFee,
                          !.shouldDecrement = FreeCredit(membership),
                          !.free = IF FreeCredit(membership)
                                   THEN membership.free_bookings_remaining ELSE 0]]
    /\ UNCHANGED <<user, invocation, repoCall, clicks, storeVars, viewVars, dashVars>>

\* from('bookings').insert({...}).select('*').single(); if (insErr) throw insErr
InsertBooking(s) ==
    LET a == attempt[s] IN
    /\ a.pc = "insert"
    /\ \/ /\ bookings' = Append(bookings, Booking(user[s], doctorId[s], a.date, ParseTime(a.time),
                                                  "pending", a.booking_fee))
          /\ attempt' = [attempt EXCEPT ![s] =
                IF a.shouldDecrement
                THEN [a EXCEPT !.pc = "decrement", !.inserted = Len(bookings) + 1]
                ELSE [Finish(s, "BookingCreated") EXCEPT !.inserted = Len(bookings) + 1]]
       \/ /\ bookings' = bookings
          /\ attempt' = [attempt EXCEPT ![s] = Finish(s, "BookingFailed")]
    /\ UNCHANGED <<user, invocation, repoCall, clicks, timeWithSeconds, doctor_schedules, memberships, viewVars, dashVars>>

\* The decrement with its error thrown: a failed update reaches catch (finalErr).
DecrementCredit_Throws(s) ==
    /\ attempt[s].pc = "decrement"
    /\ \/ /\ memberships' = IF memberships[user[s]] = NoRow THEN memberships
                            ELSE [memberships EXCEPT ![user[s]].free_bookings_remaining =
                                                           attempt[s].free - 1]
          /\ attempt' = [attempt EXCEPT ![s] = Finish(s, "BookingCreated")]
       \/ /\ memberships' = memberships
          /\ attempt' = [attempt EXCEPT ![s] = Finish(s, "BookingFailed")]
    /\ UNCHANGED <<user, invocation, repoCall, clicks, timeWithSeconds, doctor_schedules, bookings, viewVars, dashVars>>

\* The decrement computed from the stored value at the time of the write.
DecrementCredit_Current(s) ==
    /\ attempt[s].pc = "decrement"
    /\ \/ memberships' = IF memberships[user[s]] = NoRow THEN memberships
                         ELSE [memberships EXCEPT ![user[s]].free_bookings_remaining = @ - 1]
       \/ memberships' = memberships
    /\ attempt' = [attempt EXCEPT ![s] = Finish(s, "BookingCreated")]
    /\ UNCHANGED <<user, invocation, repoCall, clicks, timeWithSeconds, doctor_schedules, bookings, viewVars, dashVars>>

\* from('memberships').update({ free_bookings_remaining: (membership.free_bookings_remaining
\*   || 0) - 1 }).eq('user_id', user.id); the result is not read.  Then 'Booking Created'.
DecrementCredit(s) ==
    /\ attempt[s].pc = "decrement"
    /\ \/ memberships' = IF memberships[user[s]] = NoRow THEN memberships
                         ELSE [memberships EXCEPT ![user[s]].free_bookings_remaining =
                                                        attempt[s].free - 1]
       \/ memberships' = memberships
    /\ attempt' = [attempt EXCEPT ![s] = Finish(s, "BookingCreated")]
    /\ UNCHANGED <<user, invocation, repoCall, clicks, timeWithSeconds, doctor_schedules, bookings, viewVars, dashVars>>

----------------------------------------------------------------------------
(* backend/functions.ts: invokeWithFallback *)

\* The functions the page calls through EdgeFunctions.
FunctionNames == {"admin-data", "send-email"}

\* invokeWithFallback(name, body) up to its first await: supabase.functions.invoke is sent.
InvokeCall(name) ==
    /\ invocation.pc = "idle"
    /\ invocation' = [pc |-> "primary", name |-> name, primary |-> 1, fallback |-> 0,
                      result |-> "none"]
    /\ UNCHANGED <<user, attempt, clicks, repoCall, storeVars, viewVars, dashVars>>

\* The primary call answers: return data, or if (error) throw error into the catch
\* block, where getSession may throw or fetch(fnUrl) is sent.
InvokePrimary ==
    /\ invocation.pc = "primary"
    /\ \/ invocation' = [invocation EXCEPT !.pc = "idle", !.result = "returned"]
       \/ invocation' = [invocation EXCEPT !.pc = "fallback", !.fallback = @ + 1]
       \/ invocation' = [invocation EXCEPT !.pc = "idle", !.result = "thrown"]
    /\ UNCHANGED <<user, attempt, clicks, repoCall, storeVars, viewVars, dashVars>>

\* fetch(fnUrl) answers: return await resp.json(), or throw primaryErr || fallbackErr
InvokeFallback ==
    /\ invocation.pc = "fallback"
    /\ \/ invocation' = [invocation EXCEPT !.pc = "idle", !.result = "returned"]
       \/ invocation' = [invocation EXCEPT !.pc = "idle", !.result = "thrown"]
    /\ UNCHANGED <<user, attempt, clicks, repoCall, storeVars, viewVars, dashVars>>

----------------------------------------------------------------------------
(* BookingsRepo.hasConflict *)

\* from('bookings').select('id, status').eq('doctor_id', doctorId)
\*   .eq('appointment_date', date).eq('appointment_time', time): the rows of the slot,
\* whatever their status
SlotRows(doc, date, time) ==
    { i \in DOMAIN bookings : /\ bookings[i].doctor_id = doc
                              /\ bookings[i].appointment_date = date
                              /\ bookings[i].appointment_time = ParseTime(time) }

\* .limit(1) with no ORDER BY: any one of the matching rows, or none if there is none
LimitOne(rows) == IF rows = {} THEN { <<>> } ELSE { <<i>> : i \in rows }

\* (data || []).find(b => b.status !== 'cancelled'); return Boolean(conflict)
FindConflict(data) == \E k \in DOMAIN data : bookings[data[k]].status # "cancelled"

\* BookingsRepo.hasConflict(doctorId, date, time): if (error) throw error, else the
\* search of the one row returned.
hasConflict(doc, date, time) ==
    /\ \/ \E data \in LimitOne(SlotRows(doc, date, time)) :
             repoCall' = [doctorId |-> doc, date |-> date, time |-> time,
                          outcome |-> "returned", result |-> FindConflict(data)]
       \/ repoCall' = [doctorId |-> doc, date |-> date, time |-> time,
                       outcome |-> "thrown", result |-> FALSE]
    /\ UNCHANGED <<user, attempt, clicks, invocation, storeVars, viewVars, dashVars>>

----------------------------------------------------------------------------
(* BookingHistory.cancelBooking, DoctorDashboard.approveBooking / rejectBooking *)

\* update({ status: 'cancelled' }).eq('id', bookingId), for a booking of the user's
\* list that showed the Cancel button when the list was fetched.
cancelBooking(u, id) ==
    /\ id \in DOMAIN bookings
    /\ bookings[id].user_id = u
    /\ bookings[id].status # "cancelled"
    /\ bookings' = [bookings EXCEPT ![id].status = "cancelled"]
    /\ UNCHANGED <<timeWithSeconds, doctor_schedules, memberships, viewVars, dashVars, bookVars>>

\* The doctor's update without .eq('status', 'pending').
DoctorDecision_AnyStatus(id, status) ==
    /\ id \in DOMAIN bookings
    /\ bookings[id].doctor_id = DashDoctor
    /\ bookings[id].status # status
    /\ bookings' = [bookings EXCEPT ![id].status = status]
    /\ UNCHANGED <<timeWithSeconds, doctor_schedules, memberships, viewVars, dashVars, bookVars>>

\* update({ status }).eq('id', bookingId).eq('doctor_id', doctorInfo.id).eq('status', 'pending')
DoctorDecision(id, status) ==
    /\ id \in DOMAIN bookings
    /\ bookings[id].doctor_id = DashDoctor
    /\ bookings[id].status = "pending"
    /\ bookings' = [bookings EXCEPT ![id].status = status]
    /\ UNCHANGED <<timeWithSeconds, doctor_schedules, memberships, viewVars, dashVars, bookVars>>

approveBooking(id) == DoctorDecision(id, "confirmed")

rejectBooking(id) == DoctorDecision(id, "cancelled")

----------------------------------------------------------------------------
(* The booking system: two patient sessions, the patient's list, the doctor *)

Premium(n) == [membership_type |-> "premium", free_bookings_remaining |-> n]
Basic(n) == [membership_type |-> "basic", free_bookings_remaining |-> n]

\* The slots a session displays once it has selected `date' and its loadAvailability
\* has completed on the tables of the initial state.
DisplayedAtStart(doc, date) ==
    DeriveSlots(CHOOSE q \in RowOrders(SchedulesQuery(doc, getDay(date))) : TRUE,
                BookingsQuery(doc, date))

\* Two patients, u1 in session s1 and u2 in session s2, have opened the page of doctor dA
\* and selected date 1; the slot list of that date is displayed.  The table holds a
\* cancelled booking on one of dA's slots and a booking of a third patient with doctor
\* dB at the same date and time.
Init ==
    /\ timeWithSeconds \in BOOLEAN
    /\ doctor_schedules = {Window("dA", 1, 480, 540, TRUE), Window("dB", 1, 480, 540, TRUE)}
    /\ bookings = << Booking("u2", "dA", 1, 480, "cancelled", 1000),
                     Booking("u3", "dB", 1, 480, "pending", 1000) >>
    /\ memberships = [u \in Users |-> IF u = "u1" THEN Premium(1) ELSE NoRow]
    /\ doctorId = [s \in Sessions |-> "dA"]
    /\ user = [s \in Sessions |-> IF s = "s1" THEN "u1" ELSE "u2"]
    /\ attempt = [s \in Sessions |-> NoAttempt]
    /\ clicks = 0
    /\ invocation = NoInvocation
    /\ repoCall = NoCall
    /\ selectedDate = [s \in Sessions |-> 1]
    /\ selectedTime = [s \in Sessions |-> NoTime]
    /\ timeSlots = [s \in Sessions |-> DisplayedAtStart("dA", 1)]
    /\ slotsFrom = [s \in Sessions |-> [date |-> 1, ok |-> TRUE]]
    /\ loads = {}
    /\ InitDash

\* The steps of one patient session on the page; none once the session has left it.
BookingStep(s) ==
    \/ \E i \in 1..2 : attempt[s].pc # "left" /\ SelectTime(s, i)
    \/ HandleBookingClick(s)
    \/ CreatePrimary(s)
    \/ CreateSecondary(s)
    \/ PayPrimary(s)
    \/ PaySecondary(s)
    \/ ConflictQuery(s)
    \/ MembershipQuery(s)
    \/ InsertBooking(s)
    \/ DecrementCredit(s)

Decisions ==
    \/ \E u \in Users, id \in DOMAIN bookings : cancelBooking(u, id)
    \/ \E id \in DOMAIN bookings : approveBooking(id)
    \/ \E id \in DOMAIN bookings : rejectBooking(id)

Next ==
    \/ \E s \in Sessions : BookingStep(s)
    \/ Decisions

Spec == Init /\ [][Next]_vars

----------------------------------------------------------------------------
(* One patient books while another watches the slot list *)

Booker == "s1"
Viewer == "s2"

NextView ==
    \/ BookingStep(Booker)
    \/ \E d \in Dates : SelectDate(Viewer, d)
    \/ RealtimeReload(Viewer)
    \/ \E l \in loads : LoadSchedules(l)
    \/ \E l \in loads : LoadBookings(l)
    \/ \E u \in Users, id \in DOMAIN bookings : cancelBooking(u, id)

SpecView == Init /\ [][NextView]_vars

----------------------------------------------------------------------------
(* Slot derivation over drawn store contents *)

\* Schedule rows the store may hold: two overlapping windows, a window of one slot,
\* an empty and an inverted window, a closed window, another weekday, another doctor.
DrawnWindows ==
    { Window("dA", 1, 480, 540, TRUE), Window("dA", 1, 510, 570, TRUE),
      Window("dA", 1, 480, 480, TRUE),
      Window("dA", 1, 510, 480, TRUE), Window("dA", 1, 450, 510, FALSE),
      Window("dA", 2, 480, 540, TRUE), Window("dB", 1, 480, 540, TRUE) }

\* Booking rows the store may hold, in id order.
DrawnBookings ==
    << Booking("u1", "dA", 1, 480, "pending", 1000),
       Booking("u2", "dA", 1, 480, "cancelled", 1000),
       Booking("u1", "dA", 1, 510, "confirmed", 0),
       Booking("u1", "dA", 1, 540, "completed", 1000),
       Booking("u2", "dB", 1, 480, "pending", 1000),
       Booking("u1", "dA", 8, 510, "pending", 1000) >>

\* The rows of a sequence at the indices of I, in ascending order of index.
RECURSIVE Pick(_, _, _)
Pick(rows, I, i) ==
    IF i > Len(rows) THEN <<>>
    ELSE (IF i \in I THEN <<rows[i]>> ELSE <<>>) \o Pick(rows, I, i + 1)

InitSlots ==
    /\ timeWithSeconds \in BOOLEAN
    /\ doctor_schedules \in { W \in SUBSET DrawnWindows : Cardinality(W) <= MaxWindows }
    /\ bookings \in { Pick(DrawnBookings, I, 1) :
                        I \in { J \in SUBSET DOMAIN DrawnBookings : Cardinality(J) <= MaxPrior } }
    /\ memberships = [u \in Users |-> NoRow]
    /\ doctorId = [s \in Sessions |-> "dA"]
    /\ InitView
    /\ InitDash
    /\ InitBook

SlotSession == "s1"

NextSlots ==
    \/ \E d \in Dates \cup {NoDate} : SelectDate(SlotSession, d)
    \/ RealtimeReload(SlotSession)
    \/ \E l \in loads : LoadSchedules(l)
    \/ \E l \in loads : LoadBookings(l)

SpecSlots == InitSlots /\ [][NextSlots]_vars

----------------------------------------------------------------------------
(* The schedule editor of one dashboard *)

\* The dashboard session whose schedule editor is used when one session edits.
Editor == "w1"

InitSchedule ==
    /\ timeWithSeconds \in BOOLEAN
    /\ doctor_schedules = {Window("dB", 1, 480, 540, TRUE), Window("dA", 6, 480, 540, TRUE)}
    /\ bookings = <<>>
    /\ memberships = [u \in Users |-> NoRow]
    /\ doctorId = [s \in Sessions |-> "dA"]
    /\ InitView
    /\ InitDash
    /\ InitBook

NextSchedule ==
    \E w \in {Editor} :
        \/ \E d \in ClickDays : SetActiveDay(w, d)
        \/ \E t \in OpenChoices : SetOpen(w, t)
        \/ \E t \in CloseChoices : SetClose(w, t)
        \/ \E t \in ClickTimes : ToggleSlot(w, t)
        \/ SelectAll(w)
        \/ ClearDay(w)
        \/ CopyToAllDays(w)
        \/ RealtimeLoadSchedule(w)
        \/ SaveClick(w)
        \/ SaveDelete(w)
        \/ SaveUpsert(w)
        \/ SaveReload(w)

SpecSchedule == InitSchedule /\ [][NextSchedule]_vars

----------------------------------------------------------------------------
(* The doctor edits and saves the schedule while a patient looks at the slots *)

\* Dates the patient selects: one on weekday 1 and one on weekday 6.
ScheduleDates == {1, 6}

NextSaveView ==
    \/ \E w \in {Editor} :
          \/ \E d \in ClickDays : SetActiveDay(w, d)
          \/ \E t \in ClickTimes : ToggleSlot(w, t)
          \/ ClearDay(w)
          \/ RealtimeLoadSchedule(w)
          \/ SaveClick(w)
          \/ SaveDelete(w)
          \/ SaveUpsert(w)
          \/ SaveReload(w)
    \/ \E d \in ScheduleDates : SelectDate(SlotSession, d)
    \/ \E l \in loads : LoadSchedules(l)
    \/ \E l \in loads : LoadBookings(l)

SpecSaveView == InitSchedule /\ [][NextSaveView]_vars

----------------------------------------------------------------------------
(* The schedule editor over a table that holds windows with start_time >= end_time *)

\* doctor_schedules has no check on the two times: rows written by another client may
\* have start_time = end_time or start_time > end_time.
InitDegenerate ==
    /\ timeWithSeconds \in BOOLEAN
    /\ doctor_schedules = {Window("dB", 1, 480, 540, TRUE), Window("dA", 1, 480, 480, TRUE),
                           Window("dA", 6, 510, 480, TRUE)}
    /\ bookings = <<>>
    /\ memberships = [u \in Users |-> NoRow]
    /\ doctorId = [s \in Sessions |-> "dA"]
    /\ InitView
    /\ InitDash
    /\ InitBook

\* The slot buttons clicked: the first of the default grid and the last of the day.
EdgeTimes == { <<8, 0>>, <<23, 30>> }

NextDegenerate ==
    \/ \E w \in {Editor} :
          \/ \E t \in CloseChoices : SetClose(w, t)
          \/ \E t \in EdgeTimes : ToggleSlot(w, t)
          \/ SaveClick(w) \/ SaveDelete(w) \/ SaveUpsert(w) \/ SaveReload(w)
    \/ \E d \in ScheduleDates : SelectDate(SlotSession, d)
    \/ \E l \in loads : LoadSchedules(l)
    \/ \E l \in loads : LoadBookings(l)

SpecDegenerate == InitDegenerate /\ [][NextDegenerate]_vars

----------------------------------------------------------------------------
(* One patient signed in in two sessions *)

\* The membership rows the patient may have when the sessions open the page.
DrawnMemberships == { NoRow, Basic(1), Premium(0), Premium(1) }

\* Patient u1 has opened the page of doctor dA in two sessions and selected date 1 in
\* both; the table holds no booking.
InitCredit ==
    /\ timeWithSeconds \in BOOLEAN
    /\ doctor_schedules = {Window("dA", 1, 480, 540, TRUE)}
    /\ bookings = <<>>
    /\ \E m \in DrawnMemberships : memberships = [u \in Users |-> IF u = "u1" THEN m ELSE NoRow]
    /\ doctorId = [s \in Sessions |-> "dA"]
    /\ user = [s \in Sessions |-> "u1"]
    /\ attempt = [s \in Sessions |-> NoAttempt]
    /\ clicks = 0
    /\ invocation = NoInvocation
    /\ repoCall = NoCall
    /\ selectedDate = [s \in Sessions |-> 1]
    /\ selectedTime = [s \in Sessions |-> NoTime]
    /\ timeSlots = [s \in Sessions |-> DisplayedAtStart("dA", 1)]
    /\ slotsFrom = [s \in Sessions |-> [date |-> 1, ok |-> TRUE]]
    /\ loads = {}
    /\ InitDash

NextCredit == \E s \in Sessions : BookingStep(s)

SpecCredit == InitCredit /\ [][NextCredit]_vars

\* The same two sessions, the patient holding a premium membership with one free credit.
InitialCredit == 1

InitOneCredit ==
    /\ InitCredit
    /\ memberships["u1"] = Premium(InitialCredit)

SpecOneCredit == InitOneCredit /\ [][NextCredit]_vars

----------------------------------------------------------------------------
(* One booking session and the calls of invokeWithFallback *)

NextInvoke ==
    \/ BookingStep(Booker)
    \/ \E name \in FunctionNames : InvokeCall(name)
    \/ InvokePrimary
    \/ InvokeFallback

SpecInvoke == Init /\ [][NextInvoke]_vars

----------------------------------------------------------------------------
(* Two dashboard sessions of the same doctor editing and saving the schedule *)

\* The slot button the two sessions have clicked.
FirstSlot == <<8, 0>>

\* The doctor has the dashboard open in two sessions; in each the doctor has selected
\* the first slot of one weekday, Monday in one session and Saturday in the other.
InitTwoSaves ==
    /\ timeWithSeconds \in BOOLEAN
    /\ doctor_schedules = {Window("dB", 1, 480, 540, TRUE), Window("dA", 6, 480, 540, TRUE)}
    /\ bookings = <<>>
    /\ memberships = [u \in Users |-> NoRow]
    /\ doctorId = [s \in Sessions |-> "dA"]
    /\ InitView
    /\ InitBook
    /\ dayStates = [w \in Dashboards |->
                      [d \in Weekdays |->
                          IF (w = Editor /\ d = 1) \/ (w # Editor /\ d = 6)
                          THEN [DefaultDay EXCEPT !.selected = {FirstSlot}]
                          ELSE DefaultDay]]
    /\ activeDay = [w \in Dashboards |-> IF w = Editor THEN 1 ELSE 6]
    /\ save = [w \in Dashboards |-> Idle]
    /\ edits = [w \in Dashboards |-> 0]

NextTwoSaves ==
    \E w \in Dashboards :
        \/ ToggleSlot(w, FirstSlot)
        \/ SaveClick(w)
        \/ SaveDelete(w)
        \/ SaveUpsert(w)
        \/ SaveReload(w)

SpecTwoSaves == InitTwoSaves /\ [][NextTwoSaves]_vars

----------------------------------------------------------------------------
(* One dashboard session saving again and again *)

\* The dashboard of the doctor with the first slot of Monday selected, over a table
\* that holds a Saturday row; the saves of the session are followed.
InitRepeat ==
    /\ timeWithSeconds \in BOOLEAN
    /\ doctor_schedules = {Window("dB", 1, 480, 540, TRUE), Window("dA", 6, 480, 540, TRUE)}
    /\ bookings = <<>>
    /\ memberships = [u \in Users |-> NoRow]
    /\ doctorId = [s \in Sessions |-> "dA"]
    /\ InitView
    /\ InitBook
    /\ dayStates = [w \in Dashboards |->
                      [d \in Weekdays |->
                          IF w = Editor /\ d = 1
                          THEN [DefaultDay EXCEPT !.selected = {FirstSlot}]
                          ELSE DefaultDay]]
    /\ activeDay = [w \in Dashboards |-> 1]
    /\ save = [w \in Dashboards |-> IF w = Editor THEN [Idle EXCEPT !.last = NoSave] ELSE Idle]
    /\ edits = [w \in Dashboards |-> 0]

NextRepeat ==
    \E w \in {Editor} :
        \/ \E d \in ClickDays : SetActiveDay(w, d)
        \/ \E t \in ClickTimes : ToggleSlot(w, t)
        \/ ClearDay(w)
        \/ SaveClick(w)
        \/ SaveDelete(w)
        \/ SaveUpsert(w)
        \/ SaveReload(w)

SpecRepeat == InitRepeat /\ [][NextRepeat]_vars

----------------------------------------------------------------------------
(* One booking session, the patients' cancellations and the doctor's decisions *)

NextDecide ==
    \/ BookingStep(Booker)
    \/ Decisions

SpecDecide == Init /\ [][NextDecide]_vars

----------------------------------------------------------------------------
(* BookingsRepo.hasConflict over drawn store contents *)

\* The clock times hasConflict is asked about.
AskedTimes == { <<8, 0>>, <<8, 30>> }

NextConflict ==
    \E doc \in Doctors, date \in Dates, time \in AskedTimes : hasConflict(doc, date, time)

SpecConflict == InitSlots /\ [][NextConflict]_vars

----------------------------------------------------------------------------
(* One patient changes the date between selecting a time and booking *)

NextPick ==
    \/ BookingStep(Booker)
    \/ \E d \in Dates : SelectDate(Booker, d)
    \/ \E l \in loads : LoadSchedules(l)
    \/ \E l \in loads : LoadBookings(l)

SpecPick == Init /\ [][NextPick]_vars

----------------------------------------------------------------------------
(* One patient changes the date while a derivation is in flight *)

NextStale ==
    \/ \E d \in Dates : ReselectDate(Viewer, d)
    \/ RealtimeReload(Viewer)
    \/ \E l \in loads : LoadSchedules(l)
    \/ \E l \in loads : LoadBookings(l)
    \/ BookingStep(Booker)

SpecStale == Init /\ [][NextStale]_vars

----------------------------------------------------------------------------
(* handleBooking with every remote call answered *)

\* The steps of handleBooking that are the arrival of an answer, or of a failure, of
\* the request the call is waiting for.
Answer(s) ==
    \/ CreatePrimary(s)
    \/ CreateSecondary(s)
    \/ PayPrimary(s)
    \/ PaySecondary(s)
    \/ ConflictQuery(s)
    \/ MembershipQuery(s)
    \/ InsertBooking(s)
    \/ DecrementCredit(s)

\* One patient books, bookings are cancelled and decided meanwhile, and every request
\* of the patient's handleBooking calls eventually returns or fails.
SpecAnswered == Init /\ [][NextDecide]_vars /\ WF_vars(Answer(Booker))

----------------------------------------------------------------------------
(* Claims about booking creation, checked under Spec *)

SameSlot(i, j) ==
    /\ bookings[i].doctor_id = bookings[j].doctor_id
    /\ bookings[i].appointment_date = bookings[j].appointment_date
    /\ bookings[i].appointment_time = bookings[j].appointment_time

Active(i) == bookings[i].status # "cancelled"

\* C1: no two bookings with status other than cancelled have the same doctor, date
\* and time.
C1_OneActiveBookingPerSlot ==
    \A i, j \in DOMAIN bookings : (i < j /\ SameSlot(i, j)) => ~(Active(i) /\ Active(j))

\* The booking rows a finished or running call has created, remotely or directly.
CreatedBy(s) == { attempt[s].booking, attempt[s].inserted } \ {0}

Ended(s) == attempt[s].pc \in {"idle", "left"} /\ attempt[s].outcome # "none"

\* C2: of two calls for the same slot that ran concurrently while the slot was free,
\* and whose conflict queries (where they ran) were answered, at most one has created
\* a booking that stands.
C2_OneOfTwoConcurrentSucceeds ==
    \A s, t \in Sessions :
        ( /\ attempt[t].rival = s
          /\ Ended(s) /\ Ended(t)
          /\ attempt[s].conflict # "failed" /\ attempt[t].conflict # "failed" )
        => ~\E i \in CreatedBy(s), j \in CreatedBy(t) : Active(i) /\ Active(j)

DirectPath == {"conflict", "membership", "insert", "decrement"}

\* The slot of the running call of s has a booking with status other than cancelled
\* that this call did not create.
SlotTaken(s) ==
    \E i \in DOMAIN bookings \ CreatedBy(s) :
        /\ bookings[i].doctor_id = doctorId[s]
        /\ bookings[i].appointment_date = attempt[s].date
        /\ bookings[i].appointment_time = ParseTime(attempt[s].time)
        /\ Active(i)

\* C3: while the slot has an active booking, a call that obtained no booking from
\* create-booking ends its conflict check with Slot Unavailable, and no step of its
\* direct path inserts a booking row or changes the memberships.
C3_TakenSlotIsRefused ==
    [][ \A s \in Sessions :
            ( /\ attempt[s].pc \in DirectPath
              /\ attempt[s].booking = 0
              /\ SlotTaken(s)
              /\ attempt'[s].pc # attempt[s].pc )
            => /\ Len(bookings') = Len(bookings)
               /\ memberships' = memberships
               /\ attempt[s].pc = "conflict" => attempt'[s].outcome = "SlotUnavailable" ]_vars

\* C4: a call that obtained a booking from create-booking and whose payment requests
\* failed on both channels ends with the Booking Created (payment pending) outcome,
\* and its steps leave the booking as it is.
C4_CreatedBookingSurvivesPaymentFailure ==
    [][ \A s \in Sessions :
            ( /\ attempt[s].booking # 0
              /\ attempt[s].paySecondary = "failed"
              /\ attempt'[s].pc # attempt[s].pc )
            => /\ bookings'[attempt[s].booking] = bookings[attempt[s].booking]
               /\ attempt'[s].outcome # "none" => attempt'[s].outcome = "BookingCreated" ]_vars

\* C5: the secondary channel of create-booking is tried only after a transport
\* failure of the primary channel, and the direct path is entered without a booking
\* only after a transport failure of the secondary channel.
C5_RejectionIsNotRetried ==
    \A s \in Sessions :
        /\ attempt[s].pc = "createSecondary" => attempt[s].primary = "transport"
        /\ (attempt[s].pc \in DirectPath /\ attempt[s].booking = 0)
              => attempt[s].secondary = "transport"

----------------------------------------------------------------------------
(* Claim about derivation after a booking, checked under SpecView *)

\* C7: a derivation whose bookings query reads a booking with status other than
\* cancelled for its doctor and date displays the slot of that booking's time, if it
\* displays one, with available = false.
C7_BookedSlotIsTaken ==
    [][ \A l \in loads :
            ( /\ l.phase = "bookings"
              /\ l \notin loads'
              /\ slotsFrom'[l.sess] = [date |-> l.date, ok |-> TRUE] )
            => \A i \in DOMAIN bookings :
                  ( /\ bookings[i].doctor_id = doctorId[l.sess]
                    /\ bookings[i].appointment_date = l.date
                    /\ Active(i) )
                  => \A k \in DOMAIN timeSlots'[l.sess] :
                        toMinutes(timeSlots'[l.sess][k].time) = bookings[i].appointment_time
                           => ~timeSlots'[l.sess][k].available ]_vars

----------------------------------------------------------------------------
(* Claims about slot derivation, checked under SpecSlots *)

\* The clock times start_time + 30*k in [start_time, end_time) of the is_available
\* windows of the doctor on the weekday of the date.
WindowTimes(doc, date) ==
    UNION { { toHHMM(w.start_time + SlotStep * k) :
                k \in { j \in 0..48 : w.start_time + SlotStep * j < w.end_time } } :
            w \in { x \in doctor_schedules : /\ x.doctor_id = doc
                                             /\ x.day_of_week = getDay(date)
                                             /\ x.is_available } }

SlotTimes(slots) == { slots[i].time : i \in DOMAIN slots }

\* C6: a completed derivation shows exactly the half-hour times of the available
\* windows of the date's weekday, and a slot is flagged available if and only if no
\* booking with status other than cancelled exists for that doctor, date and time.
C6_ExactTimesAndFlags ==
    \A s \in Sessions :
        slotsFrom[s].ok =>
            /\ SlotTimes(timeSlots[s]) = WindowTimes(doctorId[s], slotsFrom[s].date)
            /\ \A i \in DOMAIN timeSlots[s] :
                 timeSlots[s][i].available <=>
                    ~ActiveBookingAt(doctorId[s], slotsFrom[s].date,
                                     toMinutes(timeSlots[s][i].time))

\* C8: the displayed sequence is strictly ascending by clock time (so no clock time
\* occurs twice), whatever windows the weekday has.
C8_StrictlyAscending ==
    \A s \in Sessions :
        slotsFrom[s].ok =>
            \A i, j \in DOMAIN timeSlots[s] :
                i < j => toMinutes(timeSlots[s][i].time) < toMinutes(timeSlots[s][j].time)

\* Two overlapping windows of the weekday were derived into one sequence.
C8_Witness ==
    /\ slotsFrom[SlotSession] = [date |-> 1, ok |-> TRUE]
    /\ {Window("dA", 1, 480, 540, TRUE), Window("dA", 1, 510, 570, TRUE)} \subseteq doctor_schedules
    /\ Len(timeSlots[SlotSession]) = 3

\* C9: a derivation writes no table, and a derivation that completes for the date of
\* the previous completed derivation, with the tables unchanged in between, displays
\* the same sequence again.
C9_ReadOnlyIdempotent ==
    [][ /\ (loads' # loads \/ timeSlots' # timeSlots) =>
              UNCHANGED <<doctor_schedules, bookings, memberships>>
        /\ \A s \in Sessions :
              ( /\ slotsFrom[s].ok
                /\ slotsFrom'[s] = slotsFrom[s]
                /\ \E l \in loads : l.sess = s /\ l \notin loads' )
              => timeSlots'[s] = timeSlots[s] ]_vars

\* A derivation over two windows and a taken slot has been displayed, and a second
\* derivation for the same date has its schedule rows in hand.
C9_Witness ==
    /\ slotsFrom[SlotSession] = [date |-> 1, ok |-> TRUE]
    /\ Len(timeSlots[SlotSession]) = 3
    /\ \E i \in DOMAIN timeSlots[SlotSession] : ~timeSlots[SlotSession][i].available
    /\ \E l \in loads : l.sess = SlotSession /\ l.date = 1 /\ l.phase = "bookings"
                        /\ Len(l.schedules) = 2

----------------------------------------------------------------------------
(* Claims about saveSchedule, checked under SpecSchedule *)

MinMinutes(selected) ==
    CHOOSE m \in { toMinutes(t) : t \in selected } : \A t \in selected : m <= toMinutes(t)

MaxMinutes(selected) ==
    CHOOSE m \in { toMinutes(t) : t \in selected } : \A t \in selected : m >= toMinutes(t)

RowsOf(doc, d) == { r \in doctor_schedules : r.doctor_id = doc /\ r.day_of_week = d }

\* C10: once the writes of a save have been applied, every weekday with a non-empty
\* selection has exactly one stored window, from the earliest selected time to the
\* latest selected time plus 30 minutes, and the save wrote no row for a weekday
\* whose selection is empty.
C10_OneSpanPerSelectedDay ==
    \A w \in Dashboards :
        save[w].pc = "reload" =>
            \A d \in Weekdays :
                IF save[w].selected[d] # {}
                THEN RowsOf(DashDoctor, d) =
                        { Window(DashDoctor, d, MinMinutes(save[w].selected[d]),
                                 MaxMinutes(save[w].selected[d]) + SlotStep, TRUE) }
                ELSE ~\E r \in save[w].rows : r.day_of_week = d

\* A selection with a gap on one weekday and none on another has been saved.
C10_Witness ==
    \E w \in Dashboards :
        /\ save[w].pc = "reload"
        /\ save[w].toast = "live"
        /\ save[w].selected[1] = { <<8, 0>>, <<9, 30>> }
        /\ save[w].selected[6] = {}
        /\ Window(DashDoctor, 1, 480, 600, TRUE) \in doctor_schedules

\* The rows of save w as the table stores them.
StoredRows(w) ==
    { Window(r.doctor_id, r.day_of_week, ParseTime(r.start_time), ParseTime(r.end_time),
             r.is_available) : r \in save[w].rows }

\* The toast of the save reports success and its writes have been answered.
ReportedLive(w) == save[w].pc = "reload" /\ save[w].toast = "live"

\* C11: when a save has reported 'Schedule is live', the rows of the doctor in
\* doctor_schedules are exactly the rows the save computed; no earlier row survives.
C11_SavedSetIsExact ==
    \A w \in Dashboards :
        ReportedLive(w) =>
            { r \in doctor_schedules : r.doctor_id = DashDoctor } = StoredRows(w)

\* C12: a save reports 'Schedule is live' only if its delete request succeeded (a
\* failed upsert never reports it: the save leaves the upsert with the failure toast).
C12_NoSuccessAfterFailedStep ==
    \A w \in Dashboards : ReportedLive(w) => save[w].deleted

----------------------------------------------------------------------------
(* Claims about a derivation after a save, checked under SpecSaveView *)

\* The half-hour slots from the earliest selected time to the latest selected time
\* plus 30 minutes, all available; none for an empty selection.
ExpectedSlots(selected) ==
    IF selected = {} THEN <<>>
    ELSE LET lo == MinMinutes(selected)
             hi == MaxMinutes(selected) + SlotStep
             n == Cardinality({ k \in 0..48 : lo + SlotStep * k < hi })
         IN [i \in 1..n |-> [time |-> toHHMM(lo + SlotStep * (i - 1)), available |-> TRUE]]

\* A derivation for the dashboard's doctor completes in this step on schedule rows
\* that are the rows stored now, the save of w having reported success, no bookings.
DerivesSaved(l, w) ==
    /\ l.phase = "bookings"
    /\ l \notin loads'
    /\ slotsFrom'[l.sess] = [date |-> l.date, ok |-> TRUE]
    /\ doctorId[l.sess] = DashDoctor
    /\ ReportedLive(w)
    /\ l.schedules \in RowOrders(SchedulesQuery(DashDoctor, getDay(l.date)))
    /\ bookings = <<>>

\* C13: after a save that reported success, a derivation for a date displays exactly
\* the half-hour slots spanned by the selection the save took for the date's weekday,
\* all available, and no slot when that selection is empty.
C13_SavedSelectionIsDerived ==
    [][ \A l \in loads, w \in Dashboards :
            DerivesSaved(l, w) =>
                timeSlots'[l.sess] = ExpectedSlots(save[w].selected[getDay(l.date)]) ]_vars

----------------------------------------------------------------------------
(* Claims about windows with start_time >= end_time, checked under SpecDegenerate *)

\* The slot times of the rows of a received schedule whose start is before their end.
ProperWindowTimes(schedules) ==
    UNION { { toHHMM(toMinutes(schedules[i].start_time) + SlotStep * k) :
                k \in { j \in 0..48 : toMinutes(schedules[i].start_time) + SlotStep * j
                                        < toMinutes(schedules[i].end_time) } } :
            i \in { j \in DOMAIN schedules :
                      toMinutes(schedules[j].start_time) < toMinutes(schedules[j].end_time) } }

\* C14: every row saveSchedule builds and every row it writes to doctor_schedules has
\* end_time > start_time, also when the latest selected time is 23:30; and the slots a
\* derivation displays are those of the received windows with start_time < end_time,
\* so a window with start_time >= end_time contributes none.
C14_NoEmptyWindowSavedOrDerived ==
    [][ /\ \A w \in Dashboards : \A r \in save'[w].rows :
              toMinutes(r.end_time) > toMinutes(r.start_time)
        /\ \A r \in doctor_schedules' \ doctor_schedules : r.end_time > r.start_time
        /\ \A l \in loads :
              ( /\ l.phase = "bookings"
                /\ l \notin loads'
                /\ slotsFrom'[l.sess] = [date |-> l.date, ok |-> TRUE] )
              => SlotTimes(timeSlots'[l.sess]) = ProperWindowTimes(l.schedules) ]_vars

\* A save with 23:30 as the only selected time of weekday 1 has written its row, and a
\* derivation for weekday 6, whose window starts after its end, displays no slot.
C14_Witness ==
    /\ Window("dA", 1, 1410, 1440, TRUE) \in doctor_schedules
    /\ Window("dA", 6, 510, 480, TRUE) \in doctor_schedules
    /\ \E w \in Dashboards : save[w].toast = "live"
    /\ slotsFrom[SlotSession] = [date |-> 6, ok |-> TRUE]
    /\ timeSlots[SlotSession] = <<>>

----------------------------------------------------------------------------
(* Claims about fees and free credits, checked under SpecCredit *)

\* C15: the fee computed by the direct path is 0 exactly when the membership as the
\* membership query returned it is premium with free_bookings_remaining > 0, and 1000
\* otherwise (no row, basic, no credit left); the row the direct path inserts carries
\* that fee, and no booking has another fee than 0 or 1000.
C15_DirectFee ==
    [][ /\ \A s \in Sessions :
              /\ (attempt[s].pc = "membership" /\ attempt'[s].pc = "insert") =>
                    LET m == attempt'[s].membership IN
                    /\ m \in {memberships[user[s]], NoRow}
                    /\ attempt'[s].booking_fee =
                          IF /\ m # NoRow
                             /\ m.membership_type = "premium"
                             /\ m.free_bookings_remaining > 0
                          THEN 0 ELSE 1000
              /\ (attempt[s].pc = "insert" /\ attempt'[s].inserted = Len(bookings) + 1) =>
                    /\ bookings'[Len(bookings')].booking_fee = attempt[s].booking_fee
                    /\ bookings'[Len(bookings')].total_amount = attempt[s].booking_fee
        /\ \A i \in DOMAIN bookings' : bookings'[i].booking_fee \in {0, 1000} ]_vars

\* One session has created a booking directly at fee 0 and the credit was written
\* down to 0; the other session has read the premium membership without credits and
\* computed the fee 1000.
C15_Witness ==
    \E s, t \in Sessions :
        /\ attempt[s].inserted \in DOMAIN bookings
        /\ bookings[attempt[s].inserted].booking_fee = 0
        /\ attempt[t].pc = "insert"
        /\ attempt[t].membership = Premium(0)
        /\ attempt[t].booking_fee = 1000

\* C16: a call that inserts a booking directly has obtained none from create-booking,
\* so no call creates more than one booking row; the inserted row has status pending,
\* payment_status pending and total_amount = booking_fee, and the call goes on to the
\* Booking Created outcome.
C16_OneDirectBookingPerAttempt ==
    [][ \A s \in Sessions :
            (attempt[s].pc = "insert" /\ attempt'[s].inserted # 0) =>
                LET row == bookings'[attempt'[s].inserted] IN
                /\ attempt[s].booking = 0
                /\ Len(bookings') = Len(bookings) + 1
                /\ row.status = "pending"
                /\ row.payment_status = "pending"
                /\ row.total_amount = row.booking_fee
                /\ \/ attempt'[s].outcome = "BookingCreated"
                   \/ attempt'[s].pc = "decrement" ]_vars

\* The bookings of user u that were created at fee 0.
FreeBookings(u) == { i \in DOMAIN bookings : bookings[i].user_id = u /\ bookings[i].booking_fee = 0 }

\* C17: whenever no call of handleBooking is running, the credits the patient has used
\* up (the initial free_bookings_remaining minus the stored one) are as many as the
\* bookings created for the patient at fee 0, also when the patient books from two
\* sessions at once.
C17_OneCreditPerFreeBooking ==
    InFlight = {} =>
        InitialCredit - memberships["u1"].free_bookings_remaining
            = Cardinality(FreeBookings("u1"))

----------------------------------------------------------------------------
(* Claim about cancellation, checked under Spec *)

\* C19: a booking becomes cancelled only from the status pending, in every
\* interleaving of the patient's cancellation with the doctor's approveBooking and
\* rejectBooking on the same booking.
C19_CancelOnlyWhilePending ==
    [][ \A i \in DOMAIN bookings :
            (bookings[i].status # "cancelled" /\ bookings'[i].status = "cancelled")
                => bookings[i].status = "pending" ]_vars

----------------------------------------------------------------------------
(* Claim about the order of the steps of one call, checked under SpecCredit *)

PaymentSteps == {"payPrimary", "paySecondary"}

\* C20: a call requests a payment session only once it holds a booking returned by
\* create-booking, and the request carries the id and the booking_fee of that booking;
\* a call reaches the Redirected outcome only from a payment request that answered
\* with a URL, so only with such a booking.
C20_PaymentAfterBooking ==
    [][ \A s \in Sessions :
            /\ attempt'[s].pc \in PaymentSteps =>
                  /\ attempt'[s].booking \in DOMAIN bookings'
                  /\ attempt'[s].payment.booking_id = attempt'[s].booking
                  /\ attempt'[s].payment.amount = bookings'[attempt'[s].booking].booking_fee
                  /\ bookings'[attempt'[s].booking].user_id = user[s]
            /\ (attempt'[s].outcome = "Redirected" /\ attempt[s].outcome # "Redirected") =>
                  /\ attempt[s].pc \in PaymentSteps
                  /\ attempt'[s].booking = attempt[s].booking
                  /\ attempt'[s].booking \in DOMAIN bookings'
                  /\ attempt'[s].inserted = 0 ]_vars

\* A call was redirected to the payment page for a booking it created at fee 0, and
\* the other session is waiting for its payment session after a failed first request.
C20_Witness ==
    \E s, t \in Sessions :
        /\ attempt[s].outcome = "Redirected"
        /\ attempt[s].payment = [booking_id |-> attempt[s].booking, amount |-> 0]
        /\ attempt[t].pc = "paySecondary"
        /\ attempt[t].payment.amount = 1000

----------------------------------------------------------------------------
(* Claim about the number of requests, checked under SpecInvoke *)

\* C21: a handleBooking call sends each of its four requests (create-booking and
\* create-payfast-payment, each through supabase.functions.invoke and through
\* fetch) at most once, and a call of invokeWithFallback sends at most one primary
\* and at most one fallback request.
C21_OncePerChannel ==
    /\ \A s \in Sessions : \A r \in Requests : attempt[s].invoked[r] <= 1
    /\ invocation.primary <= 1
    /\ invocation.fallback <= 1

\* A handleBooking call has sent all four requests and entered its catch block, and
\* a call of invokeWithFallback has thrown after its fallback request.
C21_Witness ==
    /\ attempt[Booker].pc = "conflict"
    /\ \A r \in Requests \ {"createSecondary"} : attempt[Booker].invoked[r] = 1
    /\ attempt[Booker].paySecondary = "failed"
    /\ invocation.result = "thrown"
    /\ invocation.primary = 1
    /\ invocation.fallback = 1

----------------------------------------------------------------------------
(* Claim about concurrent saves, checked under SpecTwoSaves *)

\* C22: when two sessions have run saveSchedule for the same doctor at the same time,
\* each with its delete and its upsert done, the doctor's rows are exactly the rows
\* one of the two sessions computed.
C22_LastWriterWins ==
    ( \A w \in Dashboards : ReportedLive(w) /\ save[w].deleted /\ save[w].rows # {} )
        => \E w \in Dashboards :
              { r \in doctor_schedules : r.doctor_id = DashDoctor } = StoredRows(w)

----------------------------------------------------------------------------
(* Claim about repeated saves, checked under SpecRepeat *)

\* The doctor's rows of a table.
DoctorRows(table) == { x \in table : x.doctor_id = DashDoctor }

\* The selection loadSchedule reconstructs from the rows of the doctor.
Reconstructed == [d \in Weekdays |-> LoadedDay(DoctorSchedulesQuery(DashDoctor), d).selected]

\* C23: a save that reports success with the selection of the session's previous
\* successful save leaves the doctor's rows as that save left them; and the rows
\* computed from the selection that loadSchedule reconstructs from the stored rows are
\* the stored rows.
C23_SavesAreIdempotent ==
    [][ /\ \A w \in Dashboards :
              ( /\ ~ReportedLive(w)
                /\ save'[w].pc = "reload" /\ save'[w].toast = "live"
                /\ save[w].last \notin {Untracked, NoSave}
                /\ save[w].last.selected = save[w].selected )
              => DoctorRows(doctor_schedules') = save[w].last.table
        /\ { Window(r.doctor_id, r.day_of_week, ParseTime(r.start_time), ParseTime(r.end_time),
                    r.is_available) : r \in ScheduleRows(DashDoctor, Reconstructed) }
              = DoctorRows(doctor_schedules) ]_vars

----------------------------------------------------------------------------
(* Claim about a failed decrement, checked under SpecOneCredit *)

\* C24: the step after a successful direct insert, whether the decrement of the
\* credit is applied or fails, leaves the inserted booking in the table and ends the
\* call with the Booking Created outcome.
C24_BookingStandsAfterFailedDecrement ==
    [][ \A s \in Sessions :
            (attempt[s].pc = "decrement" /\ attempt'[s].pc # "decrement") =>
                /\ attempt[s].inserted \in DOMAIN bookings'
                /\ bookings'[attempt[s].inserted] = bookings[attempt[s].inserted]
                /\ bookings'[attempt[s].inserted].user_id = user[s]
                /\ attempt'[s].outcome = "BookingCreated"
                /\ attempt'[s].inserted = attempt[s].inserted ]_vars

\* The only call made so far inserted a booking at fee 0 and ended with Booking
\* Created, and the credit is still 1: its decrement failed.
C24_Witness ==
    \E s \in Sessions :
        /\ clicks = 1
        /\ attempt[s].outcome = "BookingCreated"
        /\ attempt[s].inserted \in DOMAIN bookings
        /\ bookings[attempt[s].inserted].booking_fee = 0
        /\ memberships["u1"] = Premium(1)

----------------------------------------------------------------------------
(* Claim about the doctor's decisions, checked under SpecDecide *)

ActiveRows(table) == { i \in DOMAIN table : table[i].status # "cancelled" }

\* C25: a booking becomes confirmed only from pending and only if it is a booking of
\* the acting doctor; a step of approveBooking or rejectBooking finds its booking
\* pending and changes nothing but the status of that booking; a cancelled booking
\* stays cancelled; and a step that confirms a booking leaves the set of active
\* bookings as it was.
C25_DecisionsOnlyOnPending ==
    [][ /\ \A i \in DOMAIN bookings :
              /\ (bookings'[i].status = "confirmed" /\ bookings[i].status # "confirmed") =>
                    /\ bookings[i].status = "pending"
                    /\ bookings[i].doctor_id = DashDoctor
                    /\ ActiveRows(bookings') = ActiveRows(bookings)
              /\ bookings[i].status = "cancelled" => bookings'[i].status = "cancelled"
              /\ (approveBooking(i) \/ rejectBooking(i)) =>
                    /\ bookings[i].status = "pending"
                    /\ bookings[i].doctor_id = DashDoctor
                    /\ \A j \in DOMAIN bookings \ {i} : bookings'[j] = bookings[j]
                    /\ [bookings'[i] EXCEPT !.status = "pending"] = bookings[i] ]_vars

\* The doctor has confirmed one booking of a slot and a booking created by a call
\* for the same slot stands cancelled.
C25_Witness ==
    \E i, j \in DOMAIN bookings :
        /\ SameSlot(i, j)
        /\ bookings[i].status = "confirmed"
        /\ bookings[j].status = "cancelled"
        /\ \E s \in Sessions : j \in CreatedBy(s)

----------------------------------------------------------------------------
(* C26, checked under SpecConflict *)

\* C26: whenever BookingsRepo.hasConflict(doctorId, date, time) returns, it returns true
\* if and only if the store holds at least one booking whose status is not cancelled for
\* that doctor, date and time, whatever mix of cancelled and active bookings the slot
\* holds. (SpecConflict never changes the bookings table, so the table of the state is
\* the table the call read.)
C26_ConflictIffActive ==
    repoCall.outcome = "returned" =>
        repoCall.result = ActiveBookingAt(repoCall.doctorId, repoCall.date,
                                          ParseTime(repoCall.time))

----------------------------------------------------------------------------
(* C27, checked under SpecPick *)

\* The slot list of session s is the answer of a completed derivation for the date
\* that is selected now.
DisplayedForSelected(s) ==
    /\ slotsFrom[s].ok
    /\ slotsFrom[s].date = selectedDate[s]
    /\ \A l \in loads : l.sess # s

\* C27: a booking attempt submits only a (date, time) pair that the slot derivation for
\* the currently selected date reported with available = true.  Checked in its most
\* lenient form: whenever handleBooking starts while the displayed list is the
\* completed derivation for the selected date, the submitted date is that date and the
\* submitted time is a time of that list with available = true; so a time selected
\* under an earlier date that is absent from the new date's slots is not submitted.
C27_SubmitsDerivedAvailableSlot ==
    [][ \A s \in Sessions :
          (attempt[s].pc = "idle" /\ attempt'[s].pc = "createPrimary"
             /\ DisplayedForSelected(s)) =>
                /\ attempt'[s].date = selectedDate[s]
                /\ \E i \in DOMAIN timeSlots[s] :
                      /\ timeSlots[s][i].time = attempt'[s].time
                      /\ timeSlots[s][i].available ]_vars

----------------------------------------------------------------------------
(* C28, checked under SpecSlots *)

\* The schedule rows a load received, as a set.
ReceivedRows(l) == { l.schedules[k] : k \in DOMAIN l.schedules }

\* C28: for every load that has received its schedule rows, all entries pushed for the
\* same clock time carry the same availability flag, also when windows of the weekday
\* overlap, and the slot sequence derived from the rows is the same for every order in
\* which the store could have returned them.
C28_FlagsAgreeAndOrderIsIrrelevant ==
    \A l \in loads :
        l.phase = "bookings" =>
            LET rows == BookingsQuery(doctorId[l.sess], l.date)
                pushed == PushSlots(l.schedules, takenTimesOf(rows))
            IN /\ \A i, j \in DOMAIN pushed :
                      pushed[i].time = pushed[j].time => pushed[i].available = pushed[j].available
               /\ \A q \in RowOrders(ReceivedRows(l)) :
                      DeriveSlots(q, rows) = DeriveSlots(l.schedules, rows)

\* Two overlapping windows were received and a time they share is taken.
C28_Witness ==
    \E l \in loads :
        /\ l.phase = "bookings"
        /\ Len(l.schedules) = 2
        /\ LET pushed == PushSlots(l.schedules, takenTimesOf(BookingsQuery(doctorId[l.sess], l.date)))
           IN \E i, j \in DOMAIN pushed :
                 /\ i < j
                 /\ pushed[i].time = pushed[j].time
                 /\ ~pushed[i].available
                 /\ \E k \in DOMAIN pushed : pushed[k].available

----------------------------------------------------------------------------
(* C29, checked under SpecStale *)

\* C29: the displayed slot list results from a derivation for the currently selected
\* date; the response of a derivation for a previously selected date that arrives after
\* the date changed never overwrites it.  Checked in its most lenient form: whenever no
\* derivation of a session is in flight and its list is not empty, the list is the
\* answer of a derivation for the date that is selected.
C29_DisplayedSlotsAreOfSelectedDate ==
    \A s \in Sessions :
        ((\A l \in loads : l.sess # s) /\ timeSlots[s] # <<>>) =>
            /\ slotsFrom[s].ok
            /\ slotsFrom[s].date = selectedDate[s]

----------------------------------------------------------------------------
(* C30, checked under SpecAnswered *)

\* isBooking of a session: TRUE from setIsBooking(true) to the finally block.
isBooking(s) == s \in InFlight

Outcomes == {"Redirected", "BookingCreated", "SlotUnavailable", "BookingFailed"}

\* C30: if every remote call eventually returns or fails, every handleBooking call
\* terminates; it has no outcome while it runs and exactly one of the outcomes once it
\* has terminated, which only the next call of the session clears; isBooking is false
\* once it has terminated, and while isBooking is true no call of the session starts.
C30_TerminatesInOneOutcome ==
    /\ \A s \in Sessions : isBooking(s) ~> (~isBooking(s) /\ attempt[s].outcome \in Outcomes)
    /\ [](\A s \in Sessions : IF isBooking(s) THEN attempt[s].outcome = "none"
                                ELSE attempt[s].outcome \in Outcomes \cup {"none"})
    /\ [][ \A s \in Sessions :
              /\ (attempt[s].outcome # "none" /\ attempt'[s].outcome # attempt[s].outcome) =>
                    (~isBooking(s) /\ attempt'[s].pc = "createPrimary")
              /\ (isBooking(s) /\ attempt'[s].pc = "createPrimary") =>
                    /\ attempt[s].pc = "createPrimary"
                    /\ attempt'[s].invoked = attempt[s].invoked ]_vars

\* A session whose first call ended without a redirect has started and ended a second
\* call.
C30_Witness ==
    \E s \in Sessions :
        /\ clicks = MaxClicks
        /\ attempt[s].pc = "idle"
        /\ attempt[s].outcome \in {"SlotUnavailable", "BookingFailed"}
        /\ \A t \in Sessions \ {s} : attempt[t] = NoAttempt

====
